---- MODULE Spec2Model ----
(***************************************************************************)
(* Model of src/scrapers/covid-19/jhuLocations.js: the JHU CSSE daily      *)
(* report scraper (extractData, jhudataV2) and the two views computed      *)
(* over the cached collection (generalizedJhudataV2, getCountyJhuDataV2).  *)
(*                                                                         *)
(* JavaScript values are tagged records: strings are sequences of          *)
(* one-character strings, so that toLowerCase, parseInt and the property   *)
(* ordering of Object.keys are computed character by character.            *)
(***************************************************************************)
EXTENDS Integers, Sequences, FiniteSets, TLC

\* ------------------------------------------------------------------------
\* JavaScript values
\* ------------------------------------------------------------------------

Null == [t |-> "null"]

Undef == [t |-> "undefined"]

NaN == [t |-> "NaN"]

Num(n) == [t |-> "num", v |-> n]

Str(s) == [t |-> "str", v |-> s]

\* ToBoolean: undefined, null, NaN, 0 and "" are falsy.
Truthy(x) ==
    CASE x.t = "str" -> x.v # << >>
      [] x.t = "num" -> x.v # 0
      [] OTHER -> FALSE

\* a || null
OrNull(x) == IF Truthy(x) THEN x ELSE Null

\* o[k] on an object held as a function from property names to values:
\* a property the object does not have reads as undefined.
Get(o, k) == IF k \in DOMAIN o THEN o[k] ELSE Undef

\* loc[i] on a CSV row (0-indexed array of strings).
At(loc, i) == IF i + 1 \in DOMAIN loc THEN Str(loc[i + 1]) ELSE Undef

\* ------------------------------------------------------------------------
\* Characters
\*
\* A string is the sequence of its code points (a surrogate pair is one code
\* point, a lone surrogate is itself). A printable ASCII character is
\* written as itself; tab, line feed, form feed and carriage return as
\* "\t", "\n", "\f", "\r"; every other code point, and the grave accent,
\* as "u" followed by its number in upper-case hexadecimal, four digits or
\* more: "u00D1" is U+00D1.
\* ------------------------------------------------------------------------

Digits == <<"0", "1", "2", "3", "4", "5", "6", "7", "8", "9">>

UpperCase == <<"A", "B", "C", "D", "E", "F", "G", "H", "I", "J", "K", "L", "M",
               "N", "O", "P", "Q", "R", "S", "T", "U", "V", "W", "X", "Y", "Z">>

LowerCase == <<"a", "b", "c", "d", "e", "f", "g", "h", "i", "j", "k", "l", "m",
               "n", "o", "p", "q", "r", "s", "t", "u", "v", "w", "x", "y", "z">>

\* StrWhiteSpaceChar, which parseInt skips at the start: TAB, VT, FF, SP,
\* NBSP, ZWNBSP, the other space separators (category Zs), LF, CR, LS, PS.
WhiteSpace ==
    { "\t", "u000B", "\f", " ", "u00A0", "uFEFF",
      "u1680", "u2000", "u2001", "u2002", "u2003", "u2004", "u2005", "u2006",
      "u2007", "u2008", "u2009", "u200A", "u202F", "u205F", "u3000",
      "\n", "\r", "u2028", "u2029" }

IndexIn(seq, c) == CHOOSE i \in DOMAIN seq : seq[i] = c

IsDigit(c) == \E i \in DOMAIN Digits : Digits[i] = c

DigitVal(c) == IndexIn(Digits, c) - 1

IsHexDigit(c) ==
    \/ IsDigit(c)
    \/ \E i \in 1..6 : c = LowerCase[i] \/ c = UpperCase[i]

HexVal(c) ==
    IF IsDigit(c) THEN DigitVal(c)
    ELSE IF \E i \in 1..6 : c = LowerCase[i] THEN 9 + IndexIn(LowerCase, c)
    ELSE 9 + IndexIn(UpperCase, c)

Drop(s, n) == SubSeq(s, n + 1, Len(s))

\* ------------------------------------------------------------------------
\* String.prototype.toLowerCase: the Unicode default lower-case conversion,
\* which does not depend on the locale. The case data are those of the
\* runtime's Unicode version, so the conversion is modelled on the code
\* points U+0000 to U+07FF, with the data of Unicode 17.0 (which on these
\* code points differ from Unicode 14.0 and 15.0 in U+0295 only, a cased
\* letter there), and is not defined on a string with any other code point.
\* ------------------------------------------------------------------------

\* The lower-case mapping of the code points of the alphabet outside ASCII
\* that have one (UnicodeData.txt), but for U+0130 and U+03A3, which
\* SpecialCasing.txt governs.
SimpleLowercase ==
    [ u00C0 |-> "u00E0", u00C1 |-> "u00E1", u00C2 |-> "u00E2", u00C3 |-> "u00E3",
      u00C4 |-> "u00E4", u00C5 |-> "u00E5", u00C6 |-> "u00E6", u00C7 |-> "u00E7",
      u00C8 |-> "u00E8", u00C9 |-> "u00E9", u00CA |-> "u00EA", u00CB |-> "u00EB",
      u00CC |-> "u00EC", u00CD |-> "u00ED", u00CE |-> "u00EE", u00CF |-> "u00EF",
      u00D0 |-> "u00F0", u00D1 |-> "u00F1", u00D2 |-> "u00F2", u00D3 |-> "u00F3",
      u00D4 |-> "u00F4", u00D5 |-> "u00F5", u00D6 |-> "u00F6", u00D8 |-> "u00F8",
      u00D9 |-> "u00F9", u00DA |-> "u00FA", u00DB |-> "u00FB", u00DC |-> "u00FC",
      u00DD |-> "u00FD", u00DE |-> "u00FE", u0100 |-> "u0101", u0102 |-> "u0103",
      u0104 |-> "u0105", u0106 |-> "u0107", u0108 |-> "u0109", u010A |-> "u010B",
      u010C |-> "u010D", u010E |-> "u010F", u0110 |-> "u0111", u0112 |-> "u0113",
      u0114 |-> "u0115", u0116 |-> "u0117", u0118 |-> "u0119", u011A |-> "u011B",
      u011C |-> "u011D", u011E |-> "u011F", u0120 |-> "u0121", u0122 |-> "u0123",
      u0124 |-> "u0125", u0126 |-> "u0127", u0128 |-> "u0129", u012A |-> "u012B",
      u012C |-> "u012D", u012E |-> "u012F", u0132 |-> "u0133", u0134 |-> "u0135",
      u0136 |-> "u0137", u0139 |-> "u013A", u013B |-> "u013C", u013D |-> "u013E",
      u013F |-> "u0140", u0141 |-> "u0142", u0143 |-> "u0144", u0145 |-> "u0146",
      u0147 |-> "u0148", u014A |-> "u014B", u014C |-> "u014D", u014E |-> "u014F",
      u0150 |-> "u0151", u0152 |-> "u0153", u0154 |-> "u0155", u0156 |-> "u0157",
      u0158 |-> "u0159", u015A |-> "u015B", u015C |-> "u015D", u015E |-> "u015F",
      u0160 |-> "u0161", u0162 |-> "u0163", u0164 |-> "u0165", u0166 |-> "u0167",
      u0168 |-> "u0169", u016A |-> "u016B", u016C |-> "u016D", u016E |-> "u016F",
      u0170 |-> "u0171", u0172 |-> "u0173", u0174 |-> "u0175", u0176 |-> "u0177",
      u0178 |-> "u00FF", u0179 |-> "u017A", u017B |-> "u017C", u017D |-> "u017E",
      u0181 |-> "u0253", u0182 |-> "u0183", u0184 |-> "u0185", u0186 |-> "u0254",
      u0187 |-> "u0188", u0189 |-> "u0256", u018A |-> "u0257", u018B |-> "u018C",
      u018E |-> "u01DD", u018F |-> "u0259", u0190 |-> "u025B", u0191 |-> "u0192",
      u0193 |-> "u0260", u0194 |-> "u0263", u0196 |-> "u0269", u0197 |-> "u0268",
      u0198 |-> "u0199", u019C |-> "u026F", u019D |-> "u0272", u019F |-> "u0275",
      u01A0 |-> "u01A1", u01A2 |-> "u01A3", u01A4 |-> "u01A5", u01A6 |-> "u0280",
      u01A7 |-> "u01A8", u01A9 |-> "u0283", u01AC |-> "u01AD", u01AE |-> "u0288",
      u01AF |-> "u01B0", u01B1 |-> "u028A", u01B2 |-> "u028B", u01B3 |-> "u01B4",
      u01B5 |-> "u01B6", u01B7 |-> "u0292", u01B8 |-> "u01B9", u01BC |-> "u01BD",
      u01C4 |-> "u01C6", u01C5 |-> "u01C6", u01C7 |-> "u01C9", u01C8 |-> "u01C9",
      u01CA |-> "u01CC", u01CB |-> "u01CC", u01CD |-> "u01CE", u01CF |-> "u01D0",
      u01D1 |-> "u01D2", u01D3 |-> "u01D4", u01D5 |-> "u01D6", u01D7 |-> "u01D8",
      u01D9 |-> "u01DA", u01DB |-> "u01DC", u01DE |-> "u01DF", u01E0 |-> "u01E1",
      u01E2 |-> "u01E3", u01E4 |-> "u01E5", u01E6 |-> "u01E7", u01E8 |-> "u01E9",
      u01EA |-> "u01EB", u01EC |-> "u01ED", u01EE |-> "u01EF", u01F1 |-> "u01F3",
      u01F2 |-> "u01F3", u01F4 |-> "u01F5", u01F6 |-> "u0195", u01F7 |-> "u01BF",
      u01F8 |-> "u01F9", u01FA |-> "u01FB", u01FC |-> "u01FD", u01FE |-> "u01FF",
      u0200 |-> "u0201", u0202 |-> "u0203", u0204 |-> "u0205", u0206 |-> "u0207",
      u0208 |-> "u0209", u020A |-> "u020B", u020C |-> "u020D", u020E |-> "u020F",
      u0210 |-> "u0211", u0212 |-> "u0213", u0214 |-> "u0215", u0216 |-> "u0217",
      u0218 |-> "u0219", u021A |-> "u021B", u021C |-> "u021D", u021E |-> "u021F",
      u0220 |-> "u019E", u0222 |-> "u0223", u0224 |-> "u0225", u0226 |-> "u0227",
      u0228 |-> "u0229", u022A |-> "u022B", u022C |-> "u022D", u022E |-> "u022F",
      u0230 |-> "u0231", u0232 |-> "u0233", u023A |-> "u2C65", u023B |-> "u023C",
      u023D |-> "u019A", u023E |-> "u2C66", u0241 |-> "u0242", u0243 |-> "u0180",
      u0244 |-> "u0289", u0245 |-> "u028C", u0246 |-> "u0247", u0248 |-> "u0249",
      u024A |-> "u024B", u024C |-> "u024D", u024E |-> "u024F", u0370 |-> "u0371",
      u0372 |-> "u0373", u0376 |-> "u0377", u037F |-> "u03F3", u0386 |-> "u03AC",
      u0388 |-> "u03AD", u0389 |-> "u03AE", u038A |-> "u03AF", u038C |-> "u03CC",
      u038E |-> "u03CD", u038F |-> "u03CE", u0391 |-> "u03B1", u0392 |-> "u03B2",
      u0393 |-> "u03B3", u0394 |-> "u03B4", u0395 |-> "u03B5", u0396 |-> "u03B6",
      u0397 |-> "u03B7", u0398 |-> "u03B8", u0399 |-> "u03B9", u039A |-> "u03BA",
      u039B |-> "u03BB", u039C |-> "u03BC", u039D |-> "u03BD", u039E |-> "u03BE",
      u039F |-> "u03BF", u03A0 |-> "u03C0", u03A1 |-> "u03C1", u03A4 |-> "u03C4",
      u03A5 |-> "u03C5", u03A6 |-> "u03C6", u03A7 |-> "u03C7", u03A8 |-> "u03C8",
      u03A9 |-> "u03C9", u03AA |-> "u03CA", u03AB |-> "u03CB", u03CF |-> "u03D7",
      u03D8 |-> "u03D9", u03DA |-> "u03DB", u03DC |-> "u03DD", u03DE |-> "u03DF",
      u03E0 |-> "u03E1", u03E2 |-> "u03E3", u03E4 |-> "u03E5", u03E6 |-> "u03E7",
      u03E8 |-> "u03E9", u03EA |-> "u03EB", u03EC |-> "u03ED", u03EE |-> "u03EF",
      u03F4 |-> "u03B8", u03F7 |-> "u03F8", u03F9 |-> "u03F2", u03FA |-> "u03FB",
      u03FD |-> "u037B", u03FE |-> "u037C", u03FF |-> "u037D", u0400 |-> "u0450",
      u0401 |-> "u0451", u0402 |-> "u0452", u0403 |-> "u0453", u0404 |-> "u0454",
      u0405 |-> "u0455", u0406 |-> "u0456", u0407 |-> "u0457", u0408 |-> "u0458",
      u0409 |-> "u0459", u040A |-> "u045A", u040B |-> "u045B", u040C |-> "u045C",
      u040D |-> "u045D", u040E |-> "u045E", u040F |-> "u045F", u0410 |-> "u0430",
      u0411 |-> "u0431", u0412 |-> "u0432", u0413 |-> "u0433", u0414 |-> "u0434",
      u0415 |-> "u0435", u0416 |-> "u0436", u0417 |-> "u0437", u0418 |-> "u0438",
      u0419 |-> "u0439", u041A |-> "u043A", u041B |-> "u043B", u041C |-> "u043C",
      u041D |-> "u043D", u041E |-> "u043E", u041F |-> "u043F", u0420 |-> "u0440",
      u0421 |-> "u0441", u0422 |-> "u0442", u0423 |-> "u0443", u0424 |-> "u0444",
      u0425 |-> "u0445", u0426 |-> "u0446", u0427 |-> "u0447", u0428 |-> "u0448",
      u0429 |-> "u0449", u042A |-> "u044A", u042B |-> "u044B", u042C |-> "u044C",
      u042D |-> "u044D", u042E |-> "u044E", u042F |-> "u044F", u0460 |-> "u0461",
      u0462 |-> "u0463", u0464 |-> "u0465", u0466 |-> "u0467", u0468 |-> "u0469",
      u046A |-> "u046B", u046C |-> "u046D", u046E |-> "u046F", u0470 |-> "u0471",
      u0472 |-> "u0473", u0474 |-> "u0475", u0476 |-> "u0477", u0478 |-> "u0479",
      u047A |-> "u047B", u047C |-> "u047D", u047E |-> "u047F", u0480 |-> "u0481",
      u048A |-> "u048B", u048C |-> "u048D", u048E |-> "u048F", u0490 |-> "u0491",
      u0492 |-> "u0493", u0494 |-> "u0495", u0496 |-> "u0497", u0498 |-> "u0499",
      u049A |-> "u049B", u049C |-> "u049D", u049E |-> "u049F", u04A0 |-> "u04A1",
      u04A2 |-> "u04A3", u04A4 |-> "u04A5", u04A6 |-> "u04A7", u04A8 |-> "u04A9",
      u04AA |-> "u04AB", u04AC |-> "u04AD", u04AE |-> "u04AF", u04B0 |-> "u04B1",
      u04B2 |-> "u04B3", u04B4 |-> "u04B5", u04B6 |-> "u04B7", u04B8 |-> "u04B9",
      u04BA |-> "u04BB", u04BC |-> "u04BD", u04BE |-> "u04BF", u04C0 |-> "u04CF",
      u04C1 |-> "u04C2", u04C3 |-> "u04C4", u04C5 |-> "u04C6", u04C7 |-> "u04C8",
      u04C9 |-> "u04CA", u04CB |-> "u04CC", u04CD |-> "u04CE", u04D0 |-> "u04D1",
      u04D2 |-> "u04D3", u04D4 |-> "u04D5", u04D6 |-> "u04D7", u04D8 |-> "u04D9",
      u04DA |-> "u04DB", u04DC |-> "u04DD", u04DE |-> "u04DF", u04E0 |-> "u04E1",
      u04E2 |-> "u04E3", u04E4 |-> "u04E5", u04E6 |-> "u04E7", u04E8 |-> "u04E9",
      u04EA |-> "u04EB", u04EC |-> "u04ED", u04EE |-> "u04EF", u04F0 |-> "u04F1",
      u04F2 |-> "u04F3", u04F4 |-> "u04F5", u04F6 |-> "u04F7", u04F8 |-> "u04F9",
      u04FA |-> "u04FB", u04FC |-> "u04FD", u04FE |-> "u04FF", u0500 |-> "u0501",
      u0502 |-> "u0503", u0504 |-> "u0505", u0506 |-> "u0507", u0508 |-> "u0509",
      u050A |-> "u050B", u050C |-> "u050D", u050E |-> "u050F", u0510 |-> "u0511",
      u0512 |-> "u0513", u0514 |-> "u0515", u0516 |-> "u0517", u0518 |-> "u0519",
      u051A |-> "u051B", u051C |-> "u051D", u051E |-> "u051F", u0520 |-> "u0521",
      u0522 |-> "u0523", u0524 |-> "u0525", u0526 |-> "u0527", u0528 |-> "u0529",
      u052A |-> "u052B", u052C |-> "u052D", u052E |-> "u052F", u0531 |-> "u0561",
      u0532 |-> "u0562", u0533 |-> "u0563", u0534 |-> "u0564", u0535 |-> "u0565",
      u0536 |-> "u0566", u0537 |-> "u0567", u0538 |-> "u0568", u0539 |-> "u0569",
      u053A |-> "u056A", u053B |-> "u056B", u053C |-> "u056C", u053D |-> "u056D",
      u053E |-> "u056E", u053F |-> "u056F", u0540 |-> "u0570", u0541 |-> "u0571",
      u0542 |-> "u0572", u0543 |-> "u0573", u0544 |-> "u0574", u0545 |-> "u0575",
      u0546 |-> "u0576", u0547 |-> "u0577", u0548 |-> "u0578", u0549 |-> "u0579",
      u054A |-> "u057A", u054B |-> "u057B", u054C |-> "u057C", u054D |-> "u057D",
      u054E |-> "u057E", u054F |-> "u057F", u0550 |-> "u0580", u0551 |-> "u0581",
      u0552 |-> "u0582", u0553 |-> "u0583", u0554 |-> "u0584", u0555 |-> "u0585",
      u0556 |-> "u0586" ]

HasLowercase == DOMAIN SimpleLowercase

\* The code points of the alphabet with property Case_Ignorable.
CaseIgnorable ==
    { "'", ".", ":", "^", "u0060", "u00A8", "u00AD", "u00AF",
      "u00B4", "u00B7", "u00B8", "u02B0", "u02B1", "u02B2", "u02B3", "u02B4",
      "u02B5", "u02B6", "u02B7", "u02B8", "u02B9", "u02BA", "u02BB", "u02BC",
      "u02BD", "u02BE", "u02BF", "u02C0", "u02C1", "u02C2", "u02C3", "u02C4",
      "u02C5", "u02C6", "u02C7", "u02C8", "u02C9", "u02CA", "u02CB", "u02CC",
      "u02CD", "u02CE", "u02CF", "u02D0", "u02D1", "u02D2", "u02D3", "u02D4",
      "u02D5", "u02D6", "u02D7", "u02D8", "u02D9", "u02DA", "u02DB", "u02DC",
      "u02DD", "u02DE", "u02DF", "u02E0", "u02E1", "u02E2", "u02E3", "u02E4",
      "u02E5", "u02E6", "u02E7", "u02E8", "u02E9", "u02EA", "u02EB", "u02EC",
      "u02ED", "u02EE", "u02EF", "u02F0", "u02F1", "u02F2", "u02F3", "u02F4",
      "u02F5", "u02F6", "u02F7", "u02F8", "u02F9", "u02FA", "u02FB", "u02FC",
      "u02FD", "u02FE", "u02FF", "u0300", "u0301", "u0302", "u0303", "u0304",
      "u0305", "u0306", "u0307", "u0308", "u0309", "u030A", "u030B", "u030C",
      "u030D", "u030E", "u030F", "u0310", "u0311", "u0312", "u0313", "u0314",
      "u0315", "u0316", "u0317", "u0318", "u0319", "u031A", "u031B", "u031C",
      "u031D", "u031E", "u031F", "u0320", "u0321", "u0322", "u0323", "u0324",
      "u0325", "u0326", "u0327", "u0328", "u0329", "u032A", "u032B", "u032C",
      "u032D", "u032E", "u032F", "u0330", "u0331", "u0332", "u0333", "u0334",
      "u0335", "u0336", "u0337", "u0338", "u0339", "u033A", "u033B", "u033C",
      "u033D", "u033E", "u033F", "u0340", "u0341", "u0342", "u0343", "u0344",
      "u0345", "u0346", "u0347", "u0348", "u0349", "u034A", "u034B", "u034C",
      "u034D", "u034E", "u034F", "u0350", "u0351", "u0352", "u0353", "u0354",
      "u0355", "u0356", "u0357", "u0358", "u0359", "u035A", "u035B", "u035C",
      "u035D", "u035E", "u035F", "u0360", "u0361", "u0362", "u0363", "u0364",
      "u0365", "u0366", "u0367", "u0368", "u0369", "u036A", "u036B", "u036C",
      "u036D", "u036E", "u036F", "u0374", "u0375", "u037A", "u0384", "u0385",
      "u0387", "u0483", "u0484", "u0485", "u0486", "u0487", "u0488", "u0489",
      "u0559", "u055F", "u0591", "u0592", "u0593", "u0594", "u0595", "u0596",
      "u0597", "u0598", "u0599", "u059A", "u059B", "u059C", "u059D", "u059E",
      "u059F", "u05A0", "u05A1", "u05A2", "u05A3", "u05A4", "u05A5", "u05A6",
      "u05A7", "u05A8", "u05A9", "u05AA", "u05AB", "u05AC", "u05AD", "u05AE",
      "u05AF", "u05B0", "u05B1", "u05B2", "u05B3", "u05B4", "u05B5", "u05B6",
      "u05B7", "u05B8", "u05B9", "u05BA", "u05BB", "u05BC", "u05BD", "u05BF",
      "u05C1", "u05C2", "u05C4", "u05C5", "u05C7", "u05F4", "u0600", "u0601",
      "u0602", "u0603", "u0604", "u0605", "u0610", "u0611", "u0612", "u0613",
      "u0614", "u0615", "u0616", "u0617", "u0618", "u0619", "u061A", "u061C",
      "u0640", "u064B", "u064C", "u064D", "u064E", "u064F", "u0650", "u0651",
      "u0652", "u0653", "u0654", "u0655", "u0656", "u0657", "u0658", "u0659",
      "u065A", "u065B", "u065C", "u065D", "u065E", "u065F", "u0670", "u06D6",
      "u06D7", "u06D8", "u06D9", "u06DA", "u06DB", "u06DC", "u06DD", "u06DF",
      "u06E0", "u06E1", "u06E2", "u06E3", "u06E4", "u06E5", "u06E6", "u06E7",
      "u06E8", "u06EA", "u06EB", "u06EC", "u06ED", "u070F", "u0711", "u0730",
      "u0731", "u0732", "u0733", "u0734", "u0735", "u0736", "u0737", "u0738",
      "u0739", "u073A", "u073B", "u073C", "u073D", "u073E", "u073F", "u0740",
      "u0741", "u0742", "u0743", "u0744", "u0745", "u0746", "u0747", "u0748",
      "u0749", "u074A", "u07A6", "u07A7", "u07A8", "u07A9", "u07AA", "u07AB",
      "u07AC", "u07AD", "u07AE", "u07AF", "u07B0", "u07EB", "u07EC", "u07ED",
      "u07EE", "u07EF", "u07F0", "u07F1", "u07F2", "u07F3", "u07F4", "u07F5",
      "u07FA", "u07FD" }

\* The code points of the alphabet with property Cased that are not
\* Case_Ignorable.
Cased ==
    { "A", "B", "C", "D", "E", "F", "G", "H",
      "I", "J", "K", "L", "M", "N", "O", "P",
      "Q", "R", "S", "T", "U", "V", "W", "X",
      "Y", "Z", "a", "b", "c", "d", "e", "f",
      "g", "h", "i", "j", "k", "l", "m", "n",
      "o", "p", "q", "r", "s", "t", "u", "v",
      "w", "x", "y", "z", "u00AA", "u00B5", "u00BA", "u00C0",
      "u00C1", "u00C2", "u00C3", "u00C4", "u00C5", "u00C6", "u00C7", "u00C8",
      "u00C9", "u00CA", "u00CB", "u00CC", "u00CD", "u00CE", "u00CF", "u00D0",
      "u00D1", "u00D2", "u00D3", "u00D4", "u00D5", "u00D6", "u00D8", "u00D9",
      "u00DA", "u00DB", "u00DC", "u00DD", "u00DE", "u00DF", "u00E0", "u00E1",
      "u00E2", "u00E3", "u00E4", "u00E5", "u00E6", "u00E7", "u00E8", "u00E9",
      "u00EA", "u00EB", "u00EC", "u00ED", "u00EE", "u00EF", "u00F0", "u00F1",
      "u00F2", "u00F3", "u00F4", "u00F5", "u00F6", "u00F8", "u00F9", "u00FA",
      "u00FB", "u00FC", "u00FD", "u00FE", "u00FF", "u0100", "u0101", "u0102",
      "u0103", "u0104", "u0105", "u0106", "u0107", "u0108", "u0109", "u010A",
      "u010B", "u010C", "u010D", "u010E", "u010F", "u0110", "u0111", "u0112",
      "u0113", "u0114", "u0115", "u0116", "u0117", "u0118", "u0119", "u011A",
      "u011B", "u011C", "u011D", "u011E", "u011F", "u0120", "u0121", "u0122",
      "u0123", "u0124", "u0125", "u0126", "u0127", "u0128", "u0129", "u012A",
      "u012B", "u012C", "u012D", "u012E", "u012F", "u0130", "u0131", "u0132",
      "u0133", "u0134", "u0135", "u0136", "u0137", "u0138", "u0139", "u013A",
      "u013B", "u013C", "u013D", "u013E", "u013F", "u0140", "u0141", "u0142",
      "u0143", "u0144", "u0145", "u0146", "u0147", "u0148", "u0149", "u014A",
      "u014B", "u014C", "u014D", "u014E", "u014F", "u0150", "u0151", "u0152",
      "u0153", "u0154", "u0155", "u0156", "u0157", "u0158", "u0159", "u015A",
      "u015B", "u015C", "u015D", "u015E", "u015F", "u0160", "u0161", "u0162",
      "u0163", "u0164", "u0165", "u0166", "u0167", "u0168", "u0169", "u016A",
      "u016B", "u016C", "u016D", "u016E", "u016F", "u0170", "u0171", "u0172",
      "u0173", "u0174", "u0175", "u0176", "u0177", "u0178", "u0179", "u017A",
      "u017B", "u017C", "u017D", "u017E", "u017F", "u0180", "u0181", "u0182",
      "u0183", "u0184", "u0185", "u0186", "u0187", "u0188", "u0189", "u018A",
      "u018B", "u018C", "u018D", "u018E", "u018F", "u0190", "u0191", "u0192",
      "u0193", "u0194", "u0195", "u0196", "u0197", "u0198", "u0199", "u019A",
      "u019B", "u019C", "u019D", "u019E", "u019F", "u01A0", "u01A1", "u01A2",
      "u01A3", "u01A4", "u01A5", "u01A6", "u01A7", "u01A8", "u01A9", "u01AA",
      "u01AB", "u01AC", "u01AD", "u01AE", "u01AF", "u01B0", "u01B1", "u01B2",
      "u01B3", "u01B4", "u01B5", "u01B6", "u01B7", "u01B8", "u01B9", "u01BA",
      "u01BC", "u01BD", "u01BE", "u01BF", "u01C4", "u01C5", "u01C6", "u01C7",
      "u01C8", "u01C9", "u01CA", "u01CB", "u01CC", "u01CD", "u01CE", "u01CF",
      "u01D0", "u01D1", "u01D2", "u01D3", "u01D4", "u01D5", "u01D6", "u01D7",
      "u01D8", "u01D9", "u01DA", "u01DB", "u01DC", "u01DD", "u01DE", "u01DF",
      "u01E0", "u01E1", "u01E2", "u01E3", "u01E4", "u01E5", "u01E6", "u01E7",
      "u01E8", "u01E9", "u01EA", "u01EB", "u01EC", "u01ED", "u01EE", "u01EF",
      "u01F0", "u01F1", "u01F2", "u01F3", "u01F4", "u01F5", "u01F6", "u01F7",
      "u01F8", "u01F9", "u01FA", "u01FB", "u01FC", "u01FD", "u01FE", "u01FF",
      "u0200", "u0201", "u0202", "u0203", "u0204", "u0205", "u0206", "u0207",
      "u0208", "u0209", "u020A", "u020B", "u020C", "u020D", "u020E", "u020F",
      "u0210", "u0211", "u0212", "u0213", "u0214", "u0215", "u0216", "u0217",
      "u0218", "u0219", "u021A", "u021B", "u021C", "u021D", "u021E", "u021F",
      "u0220", "u0221", "u0222", "u0223", "u0224", "u0225", "u0226", "u0227",
      "u0228", "u0229", "u022A", "u022B", "u022C", "u022D", "u022E", "u022F",
      "u0230", "u0231", "u0232", "u0233", "u0234", "u0235", "u0236", "u0237",
      "u0238", "u0239", "u023A", "u023B", "u023C", "u023D", "u023E", "u023F",
      "u0240", "u0241", "u0242", "u0243", "u0244", "u0245", "u0246", "u0247",
      "u0248", "u0249", "u024A", "u024B", "u024C", "u024D", "u024E", "u024F",
      "u0250", "u0251", "u0252", "u0253", "u0254", "u0255", "u0256", "u0257",
      "u0258", "u0259", "u025A", "u025B", "u025C", "u025D", "u025E", "u025F",
      "u0260", "u0261", "u0262", "u0263", "u0264", "u0265", "u0266", "u0267",
      "u0268", "u0269", "u026A", "u026B", "u026C", "u026D", "u026E", "u026F",
      "u0270", "u0271", "u0272", "u0273", "u0274", "u0275", "u0276", "u0277",
      "u0278", "u0279", "u027A", "u027B", "u027C", "u027D", "u027E", "u027F",
      "u0280", "u0281", "u0282", "u0283", "u0284", "u0285", "u0286", "u0287",
      "u0288", "u0289", "u028A", "u028B", "u028C", "u028D", "u028E", "u028F",
      "u0290", "u0291", "u0292", "u0293", "u0296", "u0297", "u0298", "u0299",
      "u029A", "u029B", "u029C", "u029D", "u029E", "u029F", "u02A0", "u02A1",
      "u02A2", "u02A3", "u02A4", "u02A5", "u02A6", "u02A7", "u02A8", "u02A9",
      "u02AA", "u02AB", "u02AC", "u02AD", "u02AE", "u02AF", "u0370", "u0371",
      "u0372", "u0373", "u0376", "u0377", "u037B", "u037C", "u037D", "u037F",
      "u0386", "u0388", "u0389", "u038A", "u038C", "u038E", "u038F", "u0390",
      "u0391", "u0392", "u0393", "u0394", "u0395", "u0396", "u0397", "u0398",
      "u0399", "u039A", "u039B", "u039C", "u039D", "u039E", "u039F", "u03A0",
      "u03A1", "u03A3", "u03A4", "u03A5", "u03A6", "u03A7", "u03A8", "u03A9",
      "u03AA", "u03AB", "u03AC", "u03AD", "u03AE", "u03AF", "u03B0", "u03B1",
      "u03B2", "u03B3", "u03B4", "u03B5", "u03B6", "u03B7", "u03B8", "u03B9",
      "u03BA", "u03BB", "u03BC", "u03BD", "u03BE", "u03BF", "u03C0", "u03C1",
      "u03C2", "u03C3", "u03C4", "u03C5", "u03C6", "u03C7", "u03C8", "u03C9",
      "u03CA", "u03CB", "u03CC", "u03CD", "u03CE", "u03CF", "u03D0", "u03D1",
      "u03D2", "u03D3", "u03D4", "u03D5", "u03D6", "u03D7", "u03D8", "u03D9",
      "u03DA", "u03DB", "u03DC", "u03DD", "u03DE", "u03DF", "u03E0", "u03E1",
      "u03E2", "u03E3", "u03E4", "u03E5", "u03E6", "u03E7", "u03E8", "u03E9",
      "u03EA", "u03EB", "u03EC", "u03ED", "u03EE", "u03EF", "u03F0", "u03F1",
      "u03F2", "u03F3", "u03F4", "u03F5", "u03F7", "u03F8", "u03F9", "u03FA",
      "u03FB", "u03FC", "u03FD", "u03FE", "u03FF", "u0400", "u0401", "u0402",
      "u0403", "u0404", "u0405", "u0406", "u0407", "u0408", "u0409", "u040A",
      "u040B", "u040C", "u040D", "u040E", "u040F", "u0410", "u0411", "u0412",
      "u0413", "u0414", "u0415", "u0416", "u0417", "u0418", "u0419", "u041A",
      "u041B", "u041C", "u041D", "u041E", "u041F", "u0420", "u0421", "u0422",
      "u0423", "u0424", "u0425", "u0426", "u0427", "u0428", "u0429", "u042A",
      "u042B", "u042C", "u042D", "u042E", "u042F", "u0430", "u0431", "u0432",
      "u0433", "u0434", "u0435", "u0436", "u0437", "u0438", "u0439", "u043A",
      "u043B", "u043C", "u043D", "u043E", "u043F", "u0440", "u0441", "u0442",
      "u0443", "u0444", "u0445", "u0446", "u0447", "u0448", "u0449", "u044A",
      "u044B", "u044C", "u044D", "u044E", "u044F", "u0450", "u0451", "u0452",
      "u0453", "u0454", "u0455", "u0456", "u0457", "u0458", "u0459", "u045A",
      "u045B", "u045C", "u045D", "u045E", "u045F", "u0460", "u0461", "u0462",
      "u0463", "u0464", "u0465", "u0466", "u0467", "u0468", "u0469", "u046A",
      "u046B", "u046C", "u046D", "u046E", "u046F", "u0470", "u0471", "u0472",
      "u0473", "u0474", "u0475", "u0476", "u0477", "u0478", "u0479", "u047A",
      "u047B", "u047C", "u047D", "u047E", "u047F", "u0480", "u0481", "u048A",
      "u048B", "u048C", "u048D", "u048E", "u048F", "u0490", "u0491", "u0492",
      "u0493", "u0494", "u0495", "u0496", "u0497", "u0498", "u0499", "u049A",
      "u049B", "u049C", "u049D", "u049E", "u049F", "u04A0", "u04A1", "u04A2",
      "u04A3", "u04A4", "u04A5", "u04A6", "u04A7", "u04A8", "u04A9", "u04AA",
      "u04AB", "u04AC", "u04AD", "u04AE", "u04AF", "u04B0", "u04B1", "u04B2",
      "u04B3", "u04B4", "u04B5", "u04B6", "u04B7", "u04B8", "u04B9", "u04BA",
      "u04BB", "u04BC", "u04BD", "u04BE", "u04BF", "u04C0", "u04C1", "u04C2",
      "u04C3", "u04C4", "u04C5", "u04C6", "u04C7", "u04C8", "u04C9", "u04CA",
      "u04CB", "u04CC", "u04CD", "u04CE", "u04CF", "u04D0", "u04D1", "u04D2",
      "u04D3", "u04D4", "u04D5", "u04D6", "u04D7", "u04D8", "u04D9", "u04DA",
      "u04DB", "u04DC", "u04DD", "u04DE", "u04DF", "u04E0", "u04E1", "u04E2",
      "u04E3", "u04E4", "u04E5", "u04E6", "u04E7", "u04E8", "u04E9", "u04EA",
      "u04EB", "u04EC", "u04ED", "u04EE", "u04EF", "u04F0", "u04F1", "u04F2",
      "u04F3", "u04F4", "u04F5", "u04F6", "u04F7", "u04F8", "u04F9", "u04FA",
      "u04FB", "u04FC", "u04FD", "u04FE", "u04FF", "u0500", "u0501", "u0502",
      "u0503", "u0504", "u0505", "u0506", "u0507", "u0508", "u0509", "u050A",
      "u050B", "u050C", "u050D", "u050E", "u050F", "u0510", "u0511", "u0512",
      "u0513", "u0514", "u0515", "u0516", "u0517", "u0518", "u0519", "u051A",
      "u051B", "u051C", "u051D", "u051E", "u051F", "u0520", "u0521", "u0522",
      "u0523", "u0524", "u0525", "u0526", "u0527", "u0528", "u0529", "u052A",
      "u052B", "u052C", "u052D", "u052E", "u052F", "u0531", "u0532", "u0533",
      "u0534", "u0535", "u0536", "u0537", "u0538", "u0539", "u053A", "u053B",
      "u053C", "u053D", "u053E", "u053F", "u0540", "u0541", "u0542", "u0543",
      "u0544", "u0545", "u0546", "u0547", "u0548", "u0549", "u054A", "u054B",
      "u054C", "u054D", "u054E", "u054F", "u0550", "u0551", "u0552", "u0553",
      "u0554", "u0555", "u0556", "u0560", "u0561", "u0562", "u0563", "u0564",
      "u0565", "u0566", "u0567", "u0568", "u0569", "u056A", "u056B", "u056C",
      "u056D", "u056E", "u056F", "u0570", "u0571", "u0572", "u0573", "u0574",
      "u0575", "u0576", "u0577", "u0578", "u0579", "u057A", "u057B", "u057C",
      "u057D", "u057E", "u057F", "u0580", "u0581", "u0582", "u0583", "u0584",
      "u0585", "u0586", "u0587", "u0588" }

\* The other code points of the alphabet.
Uncased ==
    { "u0000", "u0001", "u0002", "u0003", "u0004", "u0005", "u0006", "u0007",
      "u0008", "\t", "\n", "u000B", "\f", "\r", "u000E", "u000F",
      "u0010", "u0011", "u0012", "u0013", "u0014", "u0015", "u0016", "u0017",
      "u0018", "u0019", "u001A", "u001B", "u001C", "u001D", "u001E", "u001F",
      " ", "!", "\"", "#", "$", "%", "&", "(",
      ")", "*", "+", ",", "-", "/", "0", "1",
      "2", "3", "4", "5", "6", "7", "8", "9",
      ";", "<", "=", ">", "?", "@", "[", "\\",
      "]", "_", "{", "|", "}", "~", "u007F", "u0080",
      "u0081", "u0082", "u0083", "u0084", "u0085", "u0086", "u0087", "u0088",
      "u0089", "u008A", "u008B", "u008C", "u008D", "u008E", "u008F", "u0090",
      "u0091", "u0092", "u0093", "u0094", "u0095", "u0096", "u0097", "u0098",
      "u0099", "u009A", "u009B", "u009C", "u009D", "u009E", "u009F", "u00A0",
      "u00A1", "u00A2", "u00A3", "u00A4", "u00A5", "u00A6", "u00A7", "u00A9",
      "u00AB", "u00AC", "u00AE", "u00B0", "u00B1", "u00B2", "u00B3", "u00B6",
      "u00B9", "u00BB", "u00BC", "u00BD", "u00BE", "u00BF", "u00D7", "u00F7",
      "u01BB", "u01C0", "u01C1", "u01C2", "u01C3", "u0294", "u0295", "u0378",
      "u0379", "u037E", "u0380", "u0381", "u0382", "u0383", "u038B", "u038D",
      "u03A2", "u03F6", "u0482", "u0530", "u0557", "u0558", "u055A", "u055B",
      "u055C", "u055D", "u055E", "u0589", "u058A", "u058B", "u058C", "u058D",
      "u058E", "u058F", "u0590", "u05BE", "u05C0", "u05C3", "u05C6", "u05C8",
      "u05C9", "u05CA", "u05CB", "u05CC", "u05CD", "u05CE", "u05CF", "u05D0",
      "u05D1", "u05D2", "u05D3", "u05D4", "u05D5", "u05D6", "u05D7", "u05D8",
      "u05D9", "u05DA", "u05DB", "u05DC", "u05DD", "u05DE", "u05DF", "u05E0",
      "u05E1", "u05E2", "u05E3", "u05E4", "u05E5", "u05E6", "u05E7", "u05E8",
      "u05E9", "u05EA", "u05EB", "u05EC", "u05ED", "u05EE", "u05EF", "u05F0",
      "u05F1", "u05F2", "u05F3", "u05F5", "u05F6", "u05F7", "u05F8", "u05F9",
      "u05FA", "u05FB", "u05FC", "u05FD", "u05FE", "u05FF", "u0606", "u0607",
      "u0608", "u0609", "u060A", "u060B", "u060C", "u060D", "u060E", "u060F",
      "u061B", "u061D", "u061E", "u061F", "u0620", "u0621", "u0622", "u0623",
      "u0624", "u0625", "u0626", "u0627", "u0628", "u0629", "u062A", "u062B",
      "u062C", "u062D", "u062E", "u062F", "u0630", "u0631", "u0632", "u0633",
      "u0634", "u0635", "u0636", "u0637", "u0638", "u0639", "u063A", "u063B",
      "u063C", "u063D", "u063E", "u063F", "u0641", "u0642", "u0643", "u0644",
      "u0645", "u0646", "u0647", "u0648", "u0649", "u064A", "u0660", "u0661",
      "u0662", "u0663", "u0664", "u0665", "u0666", "u0667", "u0668", "u0669",
      "u066A", "u066B", "u066C", "u066D", "u066E", "u066F", "u0671", "u0672",
      "u0673", "u0674", "u0675", "u0676", "u0677", "u0678", "u0679", "u067A",
      "u067B", "u067C", "u067D", "u067E", "u067F", "u0680", "u0681", "u0682",
      "u0683", "u0684", "u0685", "u0686", "u0687", "u0688", "u0689", "u068A",
      "u068B", "u068C", "u068D", "u068E", "u068F", "u0690", "u0691", "u0692",
      "u0693", "u0694", "u0695", "u0696", "u0697", "u0698", "u0699", "u069A",
      "u069B", "u069C", "u069D", "u069E", "u069F", "u06A0", "u06A1", "u06A2",
      "u06A3", "u06A4", "u06A5", "u06A6", "u06A7", "u06A8", "u06A9", "u06AA",
      "u06AB", "u06AC", "u06AD", "u06AE", "u06AF", "u06B0", "u06B1", "u06B2",
      "u06B3", "u06B4", "u06B5", "u06B6", "u06B7", "u06B8", "u06B9", "u06BA",
      "u06BB", "u06BC", "u06BD", "u06BE", "u06BF", "u06C0", "u06C1", "u06C2",
      "u06C3", "u06C4", "u06C5", "u06C6", "u06C7", "u06C8", "u06C9", "u06CA",
      "u06CB", "u06CC", "u06CD", "u06CE", "u06CF", "u06D0", "u06D1", "u06D2",
      "u06D3", "u06D4", "u06D5", "u06DE", "u06E9", "u06EE", "u06EF", "u06F0",
      "u06F1", "u06F2", "u06F3", "u06F4", "u06F5", "u06F6", "u06F7", "u06F8",
      "u06F9", "u06FA", "u06FB", "u06FC", "u06FD", "u06FE", "u06FF", "u0700",
      "u0701", "u0702", "u0703", "u0704", "u0705", "u0706", "u0707", "u0708",
      "u0709", "u070A", "u070B", "u070C", "u070D", "u070E", "u0710", "u0712",
      "u0713", "u0714", "u0715", "u0716", "u0717", "u0718", "u0719", "u071A",
      "u071B", "u071C", "u071D", "u071E", "u071F", "u0720", "u0721", "u0722",
      "u0723", "u0724", "u0725", "u0726", "u0727", "u0728", "u0729", "u072A",
      "u072B", "u072C", "u072D", "u072E", "u072F", "u074B", "u074C", "u074D",
      "u074E", "u074F", "u0750", "u0751", "u0752", "u0753", "u0754", "u0755",
      "u0756", "u0757", "u0758", "u0759", "u075A", "u075B", "u075C", "u075D",
      "u075E", "u075F", "u0760", "u0761", "u0762", "u0763", "u0764", "u0765",
      "u0766", "u0767", "u0768", "u0769", "u076A", "u076B", "u076C", "u076D",
      "u076E", "u076F", "u0770", "u0771", "u0772", "u0773", "u0774", "u0775",
      "u0776", "u0777", "u0778", "u0779", "u077A", "u077B", "u077C", "u077D",
      "u077E", "u077F", "u0780", "u0781", "u0782", "u0783", "u0784", "u0785",
      "u0786", "u0787", "u0788", "u0789", "u078A", "u078B", "u078C", "u078D",
      "u078E", "u078F", "u0790", "u0791", "u0792", "u0793", "u0794", "u0795",
      "u0796", "u0797", "u0798", "u0799", "u079A", "u079B", "u079C", "u079D",
      "u079E", "u079F", "u07A0", "u07A1", "u07A2", "u07A3", "u07A4", "u07A5",
      "u07B1", "u07B2", "u07B3", "u07B4", "u07B5", "u07B6", "u07B7", "u07B8",
      "u07B9", "u07BA", "u07BB", "u07BC", "u07BD", "u07BE", "u07BF", "u07C0",
      "u07C1", "u07C2", "u07C3", "u07C4", "u07C5", "u07C6", "u07C7", "u07C8",
      "u07C9", "u07CA", "u07CB", "u07CC", "u07CD", "u07CE", "u07CF", "u07D0",
      "u07D1", "u07D2", "u07D3", "u07D4", "u07D5", "u07D6", "u07D7", "u07D8",
      "u07D9", "u07DA", "u07DB", "u07DC", "u07DD", "u07DE", "u07DF", "u07E0",
      "u07E1", "u07E2", "u07E3", "u07E4", "u07E5", "u07E6", "u07E7", "u07E8",
      "u07E9", "u07EA", "u07F6", "u07F7", "u07F8", "u07F9", "u07FB", "u07FC",
      "u07FE", "u07FF" }

\* U+0000 to U+07FF.
Alphabet == CaseIgnorable \cup Cased \cup Uncased

\* Is the code point c of the alphabet a cased letter?
IsCased(c) ==
    CASE c \in Cased -> TRUE
      [] c \in Uncased -> FALSE

\* Is position i, or the nearest position before it that does not hold a
\* case-ignorable code point, a cased letter?
RECURSIVE CasedBefore(_, _)
CasedBefore(s, i) ==
    IF i < 1 THEN FALSE
    ELSE IF s[i] \in CaseIgnorable THEN CasedBefore(s, i - 1)
    ELSE IsCased(s[i])

RECURSIVE CasedAfter(_, _)
CasedAfter(s, i) ==
    IF i > Len(s) THEN FALSE
    ELSE IF s[i] \in CaseIgnorable THEN CasedAfter(s, i + 1)
    ELSE IsCased(s[i])

\* Final_Sigma: the capital sigma at position i ends a word.
FinalSigma(s, i) == CasedBefore(s, i - 1) /\ ~CasedAfter(s, i + 1)

\* The lower case of the code point at position i of s: one code point, or
\* two for U+0130; not defined for a code point outside the alphabet.
LowerChar(s, i) ==
    LET c == s[i]
    IN  IF \E n \in DOMAIN UpperCase : UpperCase[n] = c
        THEN <<LowerCase[IndexIn(UpperCase, c)]>>
        ELSE IF c = "u03A3"
        THEN IF FinalSigma(s, i) THEN <<"u03C2">> ELSE <<"u03C3">>
        ELSE IF c = "u0130" THEN <<"i", "u0307">>
        ELSE IF c \in HasLowercase THEN <<SimpleLowercase[c]>>
        ELSE CASE c \in Alphabet -> <<c>>

RECURSIVE LowerFrom(_, _)
LowerFrom(s, i) ==
    IF i > Len(s) THEN << >> ELSE LowerChar(s, i) \o LowerFrom(s, i + 1)

toLowerCase(s) == LowerFrom(s, 1)

\* ------------------------------------------------------------------------
\* parseInt(string) with no radix argument
\* ------------------------------------------------------------------------

RECURSIVE TrimStart(_)
TrimStart(s) ==
    IF s # << >> /\ s[1] \in WhiteSpace THEN TrimStart(Tail(s)) ELSE s

\* Length of the longest prefix of s made of digits of the radix.
RECURSIVE DigitPrefix(_, _)
DigitPrefix(s, radix) ==
    IF s = << >> THEN 0
    ELSE IF (radix = 16 /\ IsHexDigit(s[1])) \/ (radix = 10 /\ IsDigit(s[1]))
    THEN 1 + DigitPrefix(Tail(s), radix)
    ELSE 0

RECURSIVE DigitsValue(_, _, _)
DigitsValue(s, radix, acc) ==
    IF s = << >> THEN acc
    ELSE DigitsValue(Tail(s), radix, acc * radix + HexVal(s[1]))

parseIntChars(chars) ==
    LET s0 == TrimStart(chars)
        neg == s0 # << >> /\ s0[1] = "-"
        s1 == IF s0 # << >> /\ s0[1] \in {"-", "+"} THEN Tail(s0) ELSE s0
        hex == Len(s1) >= 2 /\ s1[1] = "0" /\ s1[2] \in {"x", "X"}
        radix == IF hex THEN 16 ELSE 10
        s2 == IF hex THEN Drop(s1, 2) ELSE s1
        n == DigitPrefix(s2, radix)
        mag == DigitsValue(SubSeq(s2, 1, n), radix, 0)
    IN  IF n = 0 THEN NaN ELSE Num(IF neg THEN 0 - mag ELSE mag)

\* parseInt(x): the argument is first converted to a string; undefined gives
\* "undefined", which has no leading digit.
parseInt(x) ==
    CASE x.t = "str" -> parseIntChars(x.v)
      [] x.t = "num" -> x
      [] OTHER -> NaN

\* ------------------------------------------------------------------------
\* extractData
\* ------------------------------------------------------------------------

extractData(loc) ==
    [ country |-> At(loc, 3),
      province |-> OrNull(At(loc, 2)),
      county |-> OrNull(At(loc, 1)),
      updatedAt |-> At(loc, 4),
      stats |-> [ confirmed |-> parseInt(At(loc, 7)),
                  deaths |-> parseInt(At(loc, 8)),
                  recovered |-> parseInt(At(loc, 9)) ],
      coordinates |-> [ latitude |-> At(loc, 5),
                        longitude |-> At(loc, 6) ] ]

\* ------------------------------------------------------------------------
\* JSON.stringify / JSON.parse
\* ------------------------------------------------------------------------

\* A JSON text is held as the document it denotes.  JSON has no NaN and no
\* undefined: a NaN number is written as null, and a property whose value is
\* undefined is left out of its object.
JsonScalar(x) == IF x.t = "NaN" THEN Null ELSE x

JsonObject(o) ==
    LET keep == {k \in DOMAIN o : o[k] # Undef}
    IN  [k \in keep |-> JsonScalar(o[k])]

JsonRecord(rec) ==
    LET keep == {k \in DOMAIN rec : rec[k] # Undef}
    IN  [k \in keep |->
            IF k \in {"stats", "coordinates"} THEN JsonObject(rec[k])
            ELSE JsonScalar(rec[k])]

JSONstringify(result) == [i \in DOMAIN result |-> JsonRecord(result[i])]

\* JSON.parse builds the objects the text denotes.
JSONparse(text) == text

\* ------------------------------------------------------------------------
\* Plain objects used as maps: property keys, inherited properties and
\* the order of Object.keys
\* ------------------------------------------------------------------------

\* ToPropertyKey: statesResult[x] converts x to a string.
PropertyKey(x) ==
    CASE x.t = "str" -> x.v
      [] x.t = "null" -> <<"n", "u", "l", "l">>
      [] x.t = "undefined" -> <<"u", "n", "d", "e", "f", "i", "n", "e", "d">>
      [] x.t = "NaN" -> <<"N", "a", "N">>
      [] OTHER -> <<"?">>

\* const statesResult = {} inherits the properties of Object.prototype:
\* reading one of these names on it gives a function (or, for __proto__,
\* the prototype object) although the object has no such own property.
ObjectPrototypeKeys ==
    { <<"c", "o", "n", "s", "t", "r", "u", "c", "t", "o", "r">>,
      <<"t", "o", "S", "t", "r", "i", "n", "g">>,
      <<"t", "o", "L", "o", "c", "a", "l", "e", "S", "t", "r", "i", "n", "g">>,
      <<"v", "a", "l", "u", "e", "O", "f">>,
      <<"h", "a", "s", "O", "w", "n", "P", "r", "o", "p", "e", "r", "t", "y">>,
      <<"i", "s", "P", "r", "o", "t", "o", "t", "y", "p", "e", "O", "f">>,
      <<"p", "r", "o", "p", "e", "r", "t", "y", "I", "s", "E", "n", "u", "m", "e", "r", "a", "b", "l", "e">>,
      <<"_", "_", "p", "r", "o", "t", "o", "_", "_">>,
      <<"_", "_", "d", "e", "f", "i", "n", "e", "G", "e", "t", "t", "e", "r", "_", "_">>,
      <<"_", "_", "d", "e", "f", "i", "n", "e", "S", "e", "t", "t", "e", "r", "_", "_">>,
      <<"_", "_", "l", "o", "o", "k", "u", "p", "G", "e", "t", "t", "e", "r", "_", "_">>,
      <<"_", "_", "l", "o", "o", "k", "u", "p", "S", "e", "t", "t", "e", "r", "_", "_">> }

\* 2^32 - 2, the largest array index, as its decimal digits.
MaxArrayIndex == <<"4", "2", "9", "4", "9", "6", "7", "2", "9", "4">>

\* a <= b for decimal numerals without leading zeros: by length, then digit
\* by digit.
RECURSIVE LexLeq(_, _)
LexLeq(a, b) ==
    IF a = << >> THEN TRUE
    ELSE IF a[1] # b[1] THEN DigitVal(a[1]) < DigitVal(b[1])
    ELSE LexLeq(Tail(a), Tail(b))

NumeralLeq(a, b) == Len(a) < Len(b) \/ (Len(a) = Len(b) /\ LexLeq(a, b))

\* An integer-like property name ("0", "7", "12"; not "01", not "").
IsArrayIndex(k) ==
    /\ k # << >>
    /\ \A i \in DOMAIN k : IsDigit(k[i])
    /\ (Len(k) = 1 \/ k[1] # "0")
    /\ NumeralLeq(k, MaxArrayIndex)

\* The keys (a sequence without repetition) ordered by increasing value.
RECURSIVE SortByValue(_)
SortByValue(ks) ==
    IF ks = << >> THEN << >>
    ELSE LET m == CHOOSE i \in DOMAIN ks :
                    \A j \in DOMAIN ks : NumeralLeq(ks[i], ks[j])
         IN  <<ks[m]>> \o SortByValue(SubSeq(ks, 1, m - 1) \o SubSeq(ks, m + 1, Len(ks)))

\* Object.keys(statesResult), given the own keys in the order they were
\* created: integer-like keys first in increasing numeric order, then the
\* other keys in creation order.
ObjectKeys(created) ==
    SortByValue(SelectSeq(created, IsArrayIndex))
        \o SelectSeq(created, LAMBDA k : ~IsArrayIndex(k))

\* ------------------------------------------------------------------------
\* generalizedJhudataV2
\* ------------------------------------------------------------------------

ToNumber(x) ==
    CASE x.t = "num" -> x
      [] x.t = "null" -> Num(0)
      [] OTHER -> NaN

\* a + b on values that are numbers, null, undefined or NaN.
JsAdd(a, b) ==
    LET x == ToNumber(a)
        y == ToNumber(b)
    IN  IF x.t = "NaN" \/ y.t = "NaN" THEN NaN ELSE Num(x.v + y.v)

\* const { province, ...defaultData } = loc; defaultData.province = province || null;
\* defaultData.stats is the very object loc.stats.
DefaultData(loc) ==
    [k \in DOMAIN loc \cup {"province"} |->
        IF k = "province" THEN OrNull(Get(loc, "province")) ELSE loc[k]]

\* statesResult[key].stats.<f> += loc.stats.<f> for the three fields; the
\* accumulator's stats object is the stats object of data[seed].
AddStats(data, seed, loc) ==
    [data EXCEPT ![seed] =
        [@ EXCEPT !["stats"] =
            [ confirmed |-> JsAdd(@["confirmed"], loc["stats"]["confirmed"]),
              deaths |-> JsAdd(@["deaths"], loc["stats"]["deaths"]),
              recovered |-> JsAdd(@["recovered"], loc["stats"]["recovered"]) ]]]

\* The state of one call: the caller's array (whose objects the call may
\* write), result, statesResult (own keys in creation order and, per key,
\* the index of the record whose copy is the accumulator) and whether a
\* TypeError was thrown.
GenStart(data) ==
    [ data |-> data, result |-> << >>, created |-> << >>,
      seed |-> << >>, threw |-> FALSE ]

OwnIndex(st, key) == CHOOSE n \in DOMAIN st.created : st.created[n] = key

HasOwn(st, key) == \E n \in DOMAIN st.created : st.created[n] = key

\* The body of data.forEach((loc) => ...) for loc = data[i].
ForEachBody(st, i) ==
    LET loc == st.data[i]
        key == PropertyKey(Get(loc, "province"))
    IN  IF Get(loc, "county") # Null
        THEN IF HasOwn(st, key)
             THEN [st EXCEPT !.data = AddStats(st.data, st.seed[OwnIndex(st, key)], loc)]
             ELSE IF key \in ObjectPrototypeKeys
             THEN [st EXCEPT !.threw = TRUE]
             ELSE [st EXCEPT !.created = Append(@, key), !.seed = Append(@, i)]
        ELSE [st EXCEPT !.result = Append(@, i)]

RECURSIVE ForEach(_, _)
ForEach(st, i) ==
    IF st.threw \/ i > Len(st.data) THEN st
    ELSE ForEach(ForEachBody(st, i), i + 1)

\* Object.keys(statesResult).map((state) => result.push(statesResult[state]))
PushStates(st) ==
    LET ks == ObjectKeys(st.created)
    IN  st.result \o [n \in DOMAIN ks |-> st.seed[OwnIndex(st, ks[n])]]

\* The call: what it returns (out, or threw), the caller's array after it,
\* and for each returned record the index of the input record it is the
\* shallow copy of, whose stats object it holds.
generalizedJhudataV2(data) ==
    LET st == ForEach(GenStart(data), 1)
        idx == PushStates(st)
    IN  [ threw |-> st.threw,
          out |-> IF st.threw THEN << >>
                  ELSE [n \in DOMAIN idx |-> DefaultData(st.data[idx[n]])],
          from |-> IF st.threw THEN << >> ELSE idx,
          data |-> st.data ]

\* ------------------------------------------------------------------------
\* getCountyJhuDataV2
\* ------------------------------------------------------------------------

\* The default parameter value: county = null applies to undefined only.
CountyParam(arg) == IF arg = Undef THEN Null ELSE arg

\* A comparison that does not lower-case the record's county.
CountyEquals(loc, county) ==
    /\ Get(loc, "county") # Null
    /\ Get(loc, "county") = county

CountyMatches(loc, county) ==
    /\ Get(loc, "county") # Null
    /\ Str(toLowerCase(Get(loc, "county").v)) = county

IsCounty(loc) == Get(loc, "county") # Null

getCountyJhuDataV2(data, arg) ==
    LET county == CountyParam(arg)
    IN  IF Truthy(county)
        THEN SelectSeq(data, LAMBDA loc : CountyMatches(loc, county))
        ELSE SelectSeq(data, IsCounty)

\* ------------------------------------------------------------------------
\* Bounds and input domains
\* ------------------------------------------------------------------------

\* Most rows of a fetched payload (overlapping runs).
MaxRows == 2

\* Most rows of a fetched payload (ingest, read back, generalize).
MaxServeRows == 3

\* Most records of a collection handed to generalizedJhudataV2.
MaxLen == 3

\* Most records of a collection handed to getCountyJhuDataV2.
MaxFilterLen == 3

\* Calls of generalizedJhudataV2 on the same array.
MaxCalls == 2

SeqsUpTo(S, n) == UNION {[1..m -> S] : m \in 0..n}

\* CSV rows: FIPS, Admin2, Province_State, Country_Region, Last_Update, Lat,
\* Long_, Confirmed, Deaths, Recovered.
Row(county, province, country, confirmed, deaths, recovered) ==
    << <<"6">>, county, province, country, <<"t", "0">>, <<"1", ".", "0">>, <<"2", ".", "0">>, confirmed, deaths, recovered >>

HeaderRow ==
    << <<"F", "I", "P", "S">>, <<"A", "d", "m", "i", "n", "2">>, <<"P", "r", "o", "v", "i", "n", "c", "e">>, <<"C", "o", "u", "n", "t", "r", "y">>, <<"U", "p", "d", "a", "t", "e">>, <<"L", "a", "t">>, <<"L", "o", "n", "g">>, <<"C", "o", "n", "f", "i", "r", "m", "e", "d">>, <<"D", "e", "a", "t", "h", "s">>, <<"R", "e", "c", "o", "v", "e", "r", "e", "d">> >>

OrangeRow == Row(<<"O", "r">>, <<"c", "a">>, <<"U", "S">>, <<"1", "2">>, <<"1">>, <<"0">>)

KentRow == Row(<<"k">>, <<"c", "a">>, <<"U", "S">>, <<"5">>, <<"2">>, <<"1">>)

ItalyRow == Row(<< >>, << >>, <<"i", "t">>, <<"7">>, <<"0">>, <<"3">>)

\* A county row whose Confirmed field is empty and whose Deaths field is text.
BadFirstRow == Row(<<"a">>, <<"c", "a">>, <<"U", "S">>, << >>, <<"n", "/", "a">>, <<"4">>)

\* A row cut short after Long_: Confirmed, Deaths and Recovered are missing.
ShortRow == << <<"6">>, <<"b">>, <<"c", "a">>, <<"U", "S">>, <<"t", "0">>, <<"1", ".", "0">>, <<"2", ".", "0">> >>

IngestRows == {HeaderRow, OrangeRow, ItalyRow}

ServeRows == {HeaderRow, KentRow, BadFirstRow, ShortRow}

\* A fetched payload: the text of well-formed CSV rows, or text (or a
\* non-text body) the CSV parser rejects.
Malformed == [wf |-> FALSE, rows |-> << >>]

Payloads(rows, n) == {[wf |-> TRUE, rows |-> p] : p \in SeqsUpTo(rows, n)} \cup {Malformed}

\* What axios.get may resolve to, per specification.
IngestPayloads == Payloads(IngestRows, MaxRows)

ServePayloads == Payloads(ServeRows, MaxServeRows)

Stats(c, d, r) == [confirmed |-> Num(c), deaths |-> Num(d), recovered |-> Num(r)]

Record(province, county, stats) ==
    [ country |-> Str(<<"U", "S">>), province |-> province, county |-> county,
      updatedAt |-> Str(<<"t", "0">>), stats |-> stats,
      coordinates |-> [latitude |-> Str(<<"1", ".", "0">>), longitude |-> Str(<<"2", ".", "0">>)] ]

ViewProvinces ==
    { Null, Str(<< >>), Str(<<"n", "u", "l", "l">>), Str(<<"7">>), Str(<<"c", "a">>), Str(<<"c", "o", "n", "s", "t", "r", "u", "c", "t", "o", "r">>) }

ViewCounties == { Null, Str(<<"o", "r">>) }

ViewStats == { Stats(1, 0, 2), Stats(2, 1, 0) }

ViewRecords ==
    { Record(p, c, s) : p \in ViewProvinces, c \in ViewCounties, s \in ViewStats }

\* No county, or, Or, OR, k, and three names outside ASCII: U+00D1 (capital
\* n with tilde), U+0130 (capital i with dot above), and capital alpha
\* followed by capital sigma.
FilterCounties ==
    { Null, Str(<<"o", "r">>), Str(<<"O", "r">>), Str(<<"O", "R">>), Str(<<"k">>),
      Str(<<"u00D1">>), Str(<<"u0130">>), Str(<<"u0391", "u03A3">>) }

FilterRecords ==
    { Record(Null, c, Stats(1, 0, 0)) : c \in FilterCounties }
        \cup { Record(Str(<<"c", "a">>), Str(<<"o", "r">>), Stats(1, 0, 0)) }

\* The county argument: omitted (undefined), null, or a string.
CountyArgs ==
    { Undef, Null, Str(<< >>), Str(<<"o", "r">>), Str(<<"O", "r">>), Str(<<"k">>),
      Str(<<"u00F1">>), Str(<<"i", "u0307">>), Str(<<"u03B1", "u03C2">>) }

\* ------------------------------------------------------------------------
\* State
\* ------------------------------------------------------------------------

VARIABLES
    cache,    \* the redis store at keys.jhu_v2: [present, value]
    run,      \* per call of jhudataV2: its position and what it did
    lastSet,  \* the call that called redis.set last (0: none) (history)
    landed,   \* the call whose write the store applied last (0: none) (history)
    cache0,   \* the store before any call (history)
    data,     \* a reader's in-memory array: [loaded, recs]
    data0,    \* the array as it was when the reader obtained it (history)
    outs,     \* the array each call of generalizedJhudataV2 on data returned,
              \* as it reads now: [threw, out]
    held,     \* per call and returned record: the index of the record of data
              \* whose stats object the returned record holds
    outs0,    \* each returned array as it read when its call returned (history)
    fcall     \* the last call of getCountyJhuDataV2 on data: [called, arg, out]

vars == <<cache, run, lastSet, landed, cache0, data, data0, outs, held, outs0, fcall>>

Runs == {1, 2}

Absent == [present |-> FALSE, value |-> << >>]

Stored(text) == [present |-> TRUE, value |-> text]

\* A snapshot an earlier day's run left in the store.
PriorSnapshot == Stored(JSONstringify(<<extractData(KentRow)>>))

IdleRun ==
    [ pc |-> "idle", payload |-> Malformed, sets |-> << >>, log |-> << >>,
      setOutcome |-> "none", failure |-> "none", ret |-> "pending",
      unhandled |-> FALSE ]

NoData == [loaded |-> FALSE, recs |-> << >>]

NoCall == [called |-> FALSE, arg |-> Undef, out |-> << >>]

ingestVars == <<cache, run, lastSet, landed, cache0>>

readerVars == <<data, data0, outs, held, outs0, fcall>>

\* ------------------------------------------------------------------------
\* jhudataV2
\* ------------------------------------------------------------------------

\* A splice that keeps the first row.
SpliceAll(parsed) == parsed

\* parsed.splice(1): the elements from index 1 on.
Splice1(parsed) == SubSeq(parsed, 2, Len(parsed))

\* parsed.splice(1).map(extractData)
Result(parsed) ==
    LET rest == Splice1(parsed)
    IN  [i \in DOMAIN rest |-> extractData(rest[i])]

\* A set that writes only when the key is absent.
RedisSetIfAbsent(store, value) == IF store.present THEN store ELSE Stored(value)

\* redis.set(key, value) when the store accepts the write.
RedisSet(store, value) == Stored(value)

\* A catch block that clears the key.
OnErrorClears(store) == Absent

\* The catch block: logs, writes nothing, returns.
OnError(store) == store

\* Lines 33-42: the date is computed and announced, the request is sent,
\* and the call waits for the response.
Start(r) ==
    /\ run[r].pc = "idle"
    /\ run' = [run EXCEPT ![r].pc = "fetching", ![r].log = Append(@, "using")]
    /\ UNCHANGED <<cache, lastSet, landed, cache0, readerVars>>

\* axios.get resolves; csv(...).fromString(response.data) is started and the
\* call waits for the rows.
FetchOk(r, payloads) ==
    /\ run[r].pc = "fetching"
    /\ \E p \in payloads :
         run' = [run EXCEPT ![r].pc = "parsing", ![r].payload = p]
    /\ UNCHANGED <<cache, lastSet, landed, cache0, readerVars>>

\* axios.get rejects: the catch block runs.
FetchFail(r) ==
    /\ run[r].pc = "fetching"
    /\ run' = [run EXCEPT ![r].pc = "done", ![r].failure = "fetch",
                          ![r].log = Append(@, "error"), ![r].ret = "resolved"]
    /\ cache' = OnError(cache)
    /\ UNCHANGED <<lastSet, landed, cache0, readerVars>>

\* The CSV parser rejects the payload: the catch block runs.
ParseFail(r) ==
    /\ run[r].pc = "parsing"
    /\ ~run[r].payload.wf
    /\ run' = [run EXCEPT ![r].pc = "done", ![r].failure = "parse",
                          ![r].log = Append(@, "error"), ![r].ret = "resolved"]
    /\ cache' = OnError(cache)
    /\ UNCHANGED <<lastSet, landed, cache0, readerVars>>

SetCall(r) ==
    [key |-> "jhu_v2", value |-> JSONstringify(Result(run[r].payload.rows))]

\* The rows arrive; lines 48-50 run without waiting: the records are built,
\* redis.set is called and returns, its result is not awaited, success is
\* logged and the call returns. The write is on its way to the store.
Store(r) ==
    /\ run[r].pc = "parsing"
    /\ run[r].payload.wf
    /\ run' = [run EXCEPT ![r].pc = "done", ![r].sets = Append(@, SetCall(r)),
                          ![r].setOutcome = "pending",
                          ![r].log = Append(@, "updated"), ![r].ret = "resolved"]
    /\ lastSet' = r
    /\ UNCHANGED <<cache, landed, cache0, readerVars>>

\* redis.set throws while being called: line 50 is skipped, the catch block
\* logs the error and the call returns normally.
StoreThrows(r) ==
    /\ run[r].pc = "parsing"
    /\ run[r].payload.wf
    /\ run' = [run EXCEPT ![r].pc = "done", ![r].sets = Append(@, SetCall(r)),
                          ![r].setOutcome = "throw",
                          ![r].log = Append(@, "error"), ![r].ret = "resolved"]
    /\ cache' = OnError(cache)
    /\ lastSet' = r
    /\ UNCHANGED <<landed, cache0, readerVars>>

\* The store applies the write of a call that has returned. Nothing orders
\* the writes of two calls: each call is given its own redis argument.
WriteApplied(r) ==
    /\ run[r].setOutcome = "pending"
    /\ run' = [run EXCEPT ![r].setOutcome = "ok"]
    /\ cache' = RedisSet(cache, run[r].sets[1].value)
    /\ landed' = r
    /\ UNCHANGED <<lastSet, cache0, readerVars>>

\* The write of a call that has returned fails: nothing awaits or handles
\* the result of redis.set, so the failure is an unhandled rejection (or is
\* dropped by the client) and the store keeps what it holds.
WriteRejected(r) ==
    /\ run[r].setOutcome = "pending"
    /\ run' = [run EXCEPT ![r].setOutcome = "reject", ![r].unhandled = TRUE]
    /\ UNCHANGED <<cache, lastSet, landed, cache0, readerVars>>

\* ------------------------------------------------------------------------
\* Readers of the cached collection
\* ------------------------------------------------------------------------

\* JSON.parse(await redis.get(keys.jhu_v2))
ReadCache ==
    /\ ~data.loaded
    /\ cache.present
    /\ data' = [loaded |-> TRUE, recs |-> JSONparse(cache.value)]
    /\ data0' = JSONparse(cache.value)
    /\ UNCHANGED <<ingestVars, outs, held, outs0, fcall>>

\* A returned array read through the stats objects its records hold.
Reread(o, from, recs) ==
    [o EXCEPT !.out = [n \in DOMAIN @ |-> [@[n] EXCEPT !.stats = recs[from[n]].stats]]]

\* generalizedJhudataV2(data): the call may write to the stats objects of the
\* records of data, which the arrays returned by earlier calls hold too.
Generalize ==
    /\ data.loaded
    /\ Len(outs) < MaxCalls
    /\ LET c == generalizedJhudataV2(data.recs)
           o == [threw |-> c.threw, out |-> c.out]
       IN  /\ outs' = Append([k \in DOMAIN outs |-> Reread(outs[k], held[k], c.data)], o)
           /\ held' = Append(held, c.from)
           /\ outs0' = Append(outs0, o)
           /\ data' = [data EXCEPT !.recs = c.data]
    /\ UNCHANGED <<ingestVars, data0, fcall>>

\* getCountyJhuDataV2(data, arg)
Filter(arg) ==
    /\ data.loaded
    /\ fcall' = [called |-> TRUE, arg |-> arg, out |-> getCountyJhuDataV2(data.recs, arg)]
    /\ UNCHANGED <<ingestVars, data, data0, outs, held, outs0>>

\* ------------------------------------------------------------------------
\* Specifications
\* ------------------------------------------------------------------------

\* Two overlapping calls of jhudataV2 on one store.
Init ==
    /\ cache \in {Absent, PriorSnapshot}
    /\ cache0 = cache
    /\ run = [r \in Runs |-> IdleRun]
    /\ lastSet = 0
    /\ landed = 0
    /\ data = NoData
    /\ data0 = << >>
    /\ outs = << >>
    /\ held = << >>
    /\ outs0 = << >>
    /\ fcall = NoCall

Next ==
    \E r \in Runs :
        \/ Start(r)
        \/ FetchOk(r, IngestPayloads)
        \/ FetchFail(r)
        \/ ParseFail(r)
        \/ Store(r)
        \/ StoreThrows(r)
        \/ WriteApplied(r)
        \/ WriteRejected(r)

Spec == Init /\ [][Next]_vars

\* One call of jhudataV2, then a reader that gets the collection from the
\* store and generalizes it.
InitServe ==
    /\ cache \in {Absent, PriorSnapshot}
    /\ cache0 = cache
    /\ run = [r \in Runs |-> IdleRun]
    /\ lastSet = 0
    /\ landed = 0
    /\ data = NoData
    /\ data0 = << >>
    /\ outs = << >>
    /\ held = << >>
    /\ outs0 = << >>
    /\ fcall = NoCall

NextServe ==
    \/ Start(1)
    \/ FetchOk(1, ServePayloads)
    \/ FetchFail(1)
    \/ ParseFail(1)
    \/ Store(1)
    \/ StoreThrows(1)
    \/ WriteApplied(1)
    \/ WriteRejected(1)
    \/ ReadCache
    \/ Generalize

SpecServe == InitServe /\ [][NextServe]_vars

\* generalizedJhudataV2 on every collection of the bounded domain.
InitView ==
    /\ cache = Absent
    /\ cache0 = cache
    /\ run = [r \in Runs |-> IdleRun]
    /\ lastSet = 0
    /\ landed = 0
    /\ data0 \in SeqsUpTo(ViewRecords, MaxLen)
    /\ data = [loaded |-> TRUE, recs |-> data0]
    /\ outs = << >>
    /\ held = << >>
    /\ outs0 = << >>
    /\ fcall = NoCall

NextView == Generalize

SpecView == InitView /\ [][NextView]_vars

\* getCountyJhuDataV2 on every collection and argument of the bounded domain.
InitFilter ==
    /\ cache = Absent
    /\ cache0 = cache
    /\ run = [r \in Runs |-> IdleRun]
    /\ lastSet = 0
    /\ landed = 0
    /\ data0 \in SeqsUpTo(FilterRecords, MaxFilterLen)
    /\ data = [loaded |-> TRUE, recs |-> data0]
    /\ outs = << >>
    /\ held = << >>
    /\ outs0 = << >>
    /\ fcall = NoCall

NextFilter == \E arg \in CountyArgs : Filter(arg)

SpecFilter == InitFilter /\ [][NextFilter]_vars

\* ------------------------------------------------------------------------
\* Claims
\* ------------------------------------------------------------------------

\* Fetch and parse both succeeded and lines 48-50 were reached.
Reached48(r) == run[r].pc = "done" /\ run[r].failure = "none"

\* The serialized collection the claims expect of a payload's rows: the
\* records of rows 2..n, in order.
ExpectedValue(rows) ==
    JSONstringify([i \in 1..(Len(rows) - 1) |-> extractData(rows[i + 1])])

\* C1: when the fetch fails, or the CSV parse of the fetched payload fails,
\* the step in which the call ends leaves the value under the snapshot key
\* exactly as it was (absent stays absent) and the call has performed no
\* cache set.
C1_FailureLeavesCache ==
    [][\A r \in Runs :
        (run[r].pc # "done" /\ run'[r].pc = "done"
            /\ run'[r].failure \in {"fetch", "parse"})
        => (cache' = cache /\ run'[r].sets = << >>)]_vars

\* A failed fetch and a failed parse, with a snapshot in the store that is
\* still the one of before the calls.
C1_Witness ==
    /\ run[1].pc = "done" /\ run[1].failure = "fetch"
    /\ run[2].pc = "done" /\ run[2].failure = "parse"
    /\ cache0 = PriorSnapshot
    /\ cache = cache0

\* The outcome of the call's set is known: it threw, or the store applied
\* or rejected the write.
Settled(r) == run[r].setOutcome \in {"ok", "throw", "reject"}

\* C8 as stated: when fetch and parse succeed on a payload of n >= 1 rows,
\* the call performs exactly one cache set, on the snapshot key, with the
\* serialization of the records of rows 2..n in source order, and (once the
\* outcome of the set is known) that value is what the key holds, whatever
\* it held before.
C8_OneSetReplaces ==
    (Reached48(1) /\ Len(run[1].payload.rows) >= 1)
    => /\ run[1].sets =
            <<[key |-> "jhu_v2", value |-> ExpectedValue(run[1].payload.rows)]>>
       /\ Settled(1) => cache = Stored(ExpectedValue(run[1].payload.rows))

\* C8 amended: when fetch and parse succeed on a payload of n >= 1 rows, the
\* call performs exactly one cache set, on the snapshot key, with the
\* serialization of the records of rows 2..n in source order; the call
\* returns without waiting for the store; from the moment the store applies
\* the write the key holds that value, whatever it held before, and until
\* then, and for good if the set throws or the write is rejected, the key
\* holds what it held before the call.
C8_OneSetOfTail ==
    (Reached48(1) /\ Len(run[1].payload.rows) >= 1)
    => /\ run[1].sets =
            <<[key |-> "jhu_v2", value |-> ExpectedValue(run[1].payload.rows)]>>
       /\ cache = IF run[1].setOutcome = "ok"
                  THEN Stored(ExpectedValue(run[1].payload.rows))
                  ELSE cache0

\* Header, a row with bad counts and Kent fetched over an older snapshot,
\* and the write applied: the store holds the two records, the bad row's
\* first, and no longer the older snapshot.
C8_Witness ==
    /\ cache0 = PriorSnapshot
    /\ run[1].pc = "done"
    /\ run[1].setOutcome = "ok"
    /\ run[1].payload.rows = <<HeaderRow, BadFirstRow, KentRow>>
    /\ Len(run[1].sets) = 1
    /\ cache.present
    /\ Len(cache.value) = 2
    /\ cache.value[1].county = Str(<<"a">>)
    /\ cache.value[1].stats.recovered = Num(4)
    /\ cache.value[2].county = Str(<<"k">>)
    /\ cache.value[2].stats.confirmed = Num(5)

\* The call fetched, parsed and called redis.set, which did not fail.
Succeeds(r) ==
    run[r].failure = "none" /\ run[r].setOutcome \in {"none", "pending", "ok"}

\* C9 as stated: while two overlapping calls both succeed, the key holds
\* the prior value or the complete serialized collection of a call that has
\* done its set, and once both calls have finished it holds the collection
\* of the call whose set was performed last.
C9_LastWriterWins ==
    (\A r \in Runs : Succeeds(r))
    => /\ \/ cache = cache0
          \/ \E r \in Runs :
                /\ run[r].pc = "done"
                /\ cache = Stored(ExpectedValue(run[r].payload.rows))
       /\ (\A r \in Runs : run[r].pc = "done")
            => /\ lastSet \in Runs
               /\ cache = Stored(ExpectedValue(run[lastSet].payload.rows))

\* C9 amended: in every reachable state of two overlapping calls the key
\* holds the prior value, as long as the store has applied no write, and
\* from then on the complete serialized collection of the call whose write
\* the store applied last (never a mixture). A call returns without waiting
\* for its write, so both calls may have finished while the key still holds
\* the prior value or the collection of the call that called set first.
C9_LastAppliedWins ==
    /\ landed = 0 => cache = cache0
    /\ landed # 0
        => /\ run[landed].pc = "done"
           /\ run[landed].setOutcome = "ok"
           /\ cache = Stored(ExpectedValue(run[landed].payload.rows))
    /\ \A r \in Runs : run[r].setOutcome = "ok" => landed # 0

\* Both calls finished with different collections and both writes were
\* applied; call 2 called redis.set last, the write of call 1 was applied
\* last, and the store holds call 1's collection, not call 2's.
C9_Witness ==
    /\ \A r \in Runs : run[r].pc = "done" /\ run[r].setOutcome = "ok"
    /\ run[1].payload.rows = <<HeaderRow, ItalyRow>>
    /\ run[2].payload.rows = <<HeaderRow, OrangeRow>>
    /\ lastSet = 2
    /\ landed = 1
    /\ cache0 = PriorSnapshot
    /\ cache = Stored(<<JsonRecord(extractData(ItalyRow))>>)

\* C10: if the store's set fails during the call (it throws, or it fails
\* after returning), the call ends with an error for its caller and does
\* not log success.
C10_SetFailurePropagates ==
    \A r \in Runs :
        (run[r].pc = "done" /\ run[r].setOutcome \in {"throw", "reject"})
        => /\ run[r].ret = "rejected"
           /\ \A i \in DOMAIN run[r].log : run[r].log[i] # "updated"

StatFields == {"confirmed", "deaths", "recovered"}

\* C6: a county row with a missing or non-numeric count, once ingested,
\* stored, read back and generalized, makes the matching total of its
\* province's aggregated record not a number (never a finite number).
C6_BadFieldPoisonsTotal ==
    (Reached48(1) /\ run[1].setOutcome = "ok" /\ data.loaded /\ Len(outs) >= 1
        /\ data0 = JSONparse(SetCall(1).value))
    => \A i \in 2..Len(run[1].payload.rows) : \A f \in StatFields :
          LET rec == extractData(run[1].payload.rows[i])
          IN  (rec.county # Null /\ rec.stats[f] = NaN)
              => /\ ~outs[1].threw
                 /\ \A n \in DOMAIN outs[1].out :
                       (outs[1].out[n].county # Null
                            /\ outs[1].out[n].province = rec.province)
                       => outs[1].out[n].stats[f].t # "num"

RECURSIVE SumField(_, _)
SumField(recs, f) ==
    IF recs = << >> THEN 0
    ELSE recs[1].stats[f].v + SumField(Tail(recs), f)

\* C2: for every province P, each of confirmed, deaths and recovered summed
\* over the output records made from county records and carrying P equals
\* that field summed over the input's county records of province P (an empty
\* province counting as null on both sides).
C2_SumPerProvince ==
    (Len(outs) >= 1 /\ ~outs[1].threw)
    => \A i \in DOMAIN data0 : \A f \in StatFields :
          LET P == OrNull(data0[i].province)
          IN  SumField(SelectSeq(outs[1].out,
                        LAMBDA o : o.county # Null /\ o.province = P), f)
              = SumField(SelectSeq(data0,
                        LAMBDA d : d.county # Null /\ OrNull(d.province) = P), f)

NonCounty(loc) == loc.county = Null

PassedThrough(recs) ==
    LET nc == SelectSeq(recs, NonCounty)
    IN  [i \in DOMAIN nc |->
            [nc[i] EXCEPT !.province = IF @ = Str(<< >>) THEN Null ELSE @]]

\* C3: every input record with county === null is in the output with its
\* fields unchanged but for an empty province, which becomes null, and the
\* output has as many such records as the input.
C3_PassThrough ==
    Len(outs) >= 1
    => /\ ~outs[1].threw
       /\ SelectSeq(outs[1].out, NonCounty) = PassedThrough(data0)

\* C5: a call leaves every record of its input as it was, and a second
\* call on the same array returns what the first call returned.
C5_SameOutputTwice ==
    /\ Len(outs) >= 1 => data.recs = data0
    /\ Len(outs0) >= 2 => outs0[1] = outs0[2]

RECURSIVE FirstSeen(_, _)
FirstSeen(ps, seen) ==
    IF ps = << >> THEN << >>
    ELSE IF ps[1] \in seen THEN FirstSeen(Tail(ps), seen)
    ELSE <<ps[1]>> \o FirstSeen(Tail(ps), seen \cup {ps[1]})

\* Collections as extractData builds them: no record has an empty province.
AsExtracted(recs) == \A i \in DOMAIN recs : recs[i].province # Str(<< >>)

\* C7: the output is the non-county records in their order, then one
\* aggregated record per distinct province of the county records, in the
\* order in which the provinces first occur in the input.
C7_OutputOrder ==
    (Len(outs) >= 1 /\ ~outs[1].threw /\ AsExtracted(data0))
    => LET out == outs[1].out
           nc == Len(SelectSeq(data0, NonCounty))
           counties == SelectSeq(data0, LAMBDA d : d.county # Null)
           provinces == [i \in DOMAIN counties |-> OrNull(counties[i].province)]
           expected == FirstSeen(provinces, {})
       IN  /\ Len(out) = nc + Len(expected)
           /\ SubSeq(out, 1, nc) = PassedThrough(data0)
           /\ \A n \in DOMAIN expected :
                 /\ out[nc + n].county # Null
                 /\ out[nc + n].province = expected[n]

HasUpper(s) == toLowerCase(s) # s

\* C4 as stated: for a null (or omitted) argument the county records in
\* their order; for any string, the records whose county equals it when
\* both are compared without regard to case.
C4_CaseInsensitive ==
    fcall.called
    => IF fcall.arg \in {Null, Undef}
       THEN fcall.out = SelectSeq(data0, LAMBDA d : d.county # Null)
       ELSE fcall.out = SelectSeq(data0, LAMBDA d :
                /\ d.county # Null
                /\ toLowerCase(d.county.v) = toLowerCase(fcall.arg.v))

\* C4 amended: for a null, omitted or empty argument the county records in
\* their order; for a non-empty string, the records, in their order, whose
\* county in lower case equals the argument as given, so that an argument
\* that toLowerCase would change selects nothing.
C4_LowerCasedCountyEqualsArg ==
    fcall.called
    => /\ IF fcall.arg \in {Null, Undef, Str(<< >>)}
          THEN fcall.out = SelectSeq(data0, LAMBDA d : d.county # Null)
          ELSE fcall.out = SelectSeq(data0, LAMBDA d :
                   /\ d.county # Null
                   /\ toLowerCase(d.county.v) = fcall.arg.v)
       /\ (fcall.arg.t = "str" /\ HasUpper(fcall.arg.v)) => fcall.out = << >>

\* Orange in two spellings around Kent, filtered by "or": both spellings
\* are selected, in their order.
C4_Witness ==
    /\ fcall.called
    /\ fcall.arg = Str(<<"o", "r">>)
    /\ Len(data0) = 3
    /\ data0[2].county = Str(<<"k">>)
    /\ Len(fcall.out) = 2
    /\ fcall.out[1].county = Str(<<"O", "r">>)
    /\ fcall.out[2].county = Str(<<"O", "R">>)

====
